---- MODULE Spec2Model ----
(***************************************************************************)
(* A model of src/src/ivf.rs: the IVF container reader.                    *)
(*                                                                         *)
(*   Ivf::new      reads and validates the 32-byte header                  *)
(*   Ivf::width .. the accessors of the stored header                      *)
(*   Ivf::iter     hands out an IvfIter over a clone of the reader         *)
(*   IvfIter::next reads one frame record, IvfIter::size_hint              *)
(*                                                                         *)
(* The byte source R is modelled as std::io::Cursor is: an immutable byte  *)
(* string (data) and a read position; a clone copies the position.         *)
(* Integers: u16 and u32 values are TLA+ integers (the inputs keep them    *)
(* below 2^31); a u64 does not fit, so it is kept as its two 32-bit halves *)
(* [lo, hi], value = hi * 2^32 + lo.                                       *)
(***************************************************************************)
EXTENDS Integers, Sequences, FiniteSets, TLC

VARIABLES
    data,     \* the bytes of the source handed to Ivf::new (never written)
    layout,   \* how data was put together: [header, frames, tail, bytes]
    result,   \* what Ivf::new returned: None before the call, else Some(Result)
    ivf,      \* the Ivf value: None, or Some([reader, header])
    iters,    \* the IvfIter values held by the caller, None or Some(IvfIter)
    held,     \* the handles under which the caller keeps iterators
    out,      \* per iterator, what its next() calls returned, in order
    ret       \* what the last accessor or size_hint call returned

vars == <<data, layout, held, result, ivf, iters, out, ret>>

(***************************************************************************)
(* Bounds of the model.                                                    *)
(***************************************************************************)
\* complete frame records in a source
MaxFrames == 2
\* payload bytes of a complete frame record
MaxPayload == 2
\* IvfIter values a caller holds at once
NumIters == 2
\* next() calls recorded per IvfIter
MaxDemands == 4
\* bytes after the header of a source of arbitrary bytes
MaxBody == 14

Handles == 1..NumIters

(***************************************************************************)
(* Option<T>, as Rust's: None or Some(x).                                  *)
(***************************************************************************)
None == <<>>
Some(x) == <<x>>
Unwrap(o) == o[1]

Min(a, b) == IF a <= b THEN a ELSE b

(***************************************************************************)
(* Integer conversions.                                                    *)
(***************************************************************************)
RECURSIVE from_be_bytes(_)
\* the bytes read the other way round: the first byte the most significant
from_be_bytes(b) ==
    IF b = <<>> THEN 0 ELSE Head(b) * (256 ^ (Len(b) - 1)) + from_be_bytes(Tail(b))

RECURSIVE from_le_bytes(_)
\* uN::from_le_bytes: the first byte is the least significant
from_le_bytes(b) ==
    IF b = <<>> THEN 0 ELSE Head(b) + 256 * from_le_bytes(Tail(b))

\* the halves of a u64 taken for each other
u64_from_halves_swapped(b) ==
    [lo |-> from_le_bytes(SubSeq(b, 5, 8)), hi |-> from_le_bytes(SubSeq(b, 1, 4))]

\* u64::from_le_bytes, as the two 32-bit halves of the value
u64_from_le_bytes(b) ==
    [lo |-> from_le_bytes(SubSeq(b, 1, 4)), hi |-> from_le_bytes(SubSeq(b, 5, 8))]

(***************************************************************************)
(* The reader: Read::read_exact and Clone::clone.                          *)
(***************************************************************************)
\* buf with its front overwritten by bytes
Overlay(buf, bytes) ==
    [k \in 1..Len(buf) |-> IF k <= Len(bytes) THEN bytes[k] ELSE buf[k]]

\* Read::read_exact(&mut reader, &mut buf), n the length of buf: the outcomes
\* [ok, reader, bytes], bytes what was written to the front of buf.  With n
\* bytes left it fills buf and advances by n.  With fewer it fails with
\* UnexpectedEof, and how many bytes it has consumed and what buf holds is
\* unspecified.  The outcomes are those of the implementations in std:
\*   - nothing consumed, buf untouched (Cursor and &[u8], older toolchains);
\*   - everything consumed, buf untouched (Cursor and &[u8], newer ones);
\*   - everything consumed, the front of buf filled (the default method of
\*     the trait, which reads until the source is empty).
read_exact(reader, n) ==
    LET avail == Len(data) - reader.pos
        rest == SubSeq(data, reader.pos + 1, Len(data))
    IN  IF n <= avail
        THEN {[ok |-> TRUE,
               reader |-> [pos |-> reader.pos + n],
               bytes |-> SubSeq(data, reader.pos + 1, reader.pos + n)]}
        ELSE {[ok |-> FALSE, reader |-> [pos |-> reader.pos], bytes |-> <<>>],
              [ok |-> FALSE, reader |-> [pos |-> Len(data)], bytes |-> <<>>],
              [ok |-> FALSE, reader |-> [pos |-> Len(data)], bytes |-> rest]}

\* a clone that starts over at the first byte of the source
clone_rewound(reader) == [pos |-> 0]

\* R::clone: an independent reader at the same position
clone(reader) == [pos |-> reader.pos]

Zeros(n) == [k \in 1..n |-> 0]

(***************************************************************************)
(* Ivf::new.                                                               *)
(***************************************************************************)
\* std::mem::size_of::<IvfHeader>(): 4 + 2 + 2 + 4 + 2 + 2 + 4 + 4 + 4 + 4
HeaderSize == 32

DKIF == <<68, 75, 73, 70>>
VP90 == <<86, 80, 57, 48>>

Ok(v) == [tag |-> "Ok", val |-> Some(v), kind |-> "", reason |-> ""]
Err(k, r) == [tag |-> "Err", val |-> None, kind |-> k, reason |-> r]

\* the io::Error of the short header read, passed on by `?`
TruncatedInput == Err("TruncatedInput", "")
InvalidHeader(reason) == Err("InvalidHeader", reason)

IvfHeader(d) ==
    [signature        |-> SubSeq(d, 1, 4),
     version          |-> from_le_bytes(SubSeq(d, 5, 6)),
     length           |-> from_le_bytes(SubSeq(d, 7, 8)),
     four_cc          |-> SubSeq(d, 9, 12),
     width            |-> from_le_bytes(SubSeq(d, 13, 14)),
     height           |-> from_le_bytes(SubSeq(d, 15, 16)),
     frame_rate_rate  |-> from_le_bytes(SubSeq(d, 17, 20)),
     frame_rate_scale |-> from_le_bytes(SubSeq(d, 21, 24)),
     frame_count      |-> from_le_bytes(SubSeq(d, 25, 28)),
     reserved         |-> SubSeq(d, 29, 32)]

\* the checks in another order: the version before the signature
validate_version_first(reader, header) ==
    IF header.version # 0 THEN InvalidHeader("invalid version")
    ELSE IF header.signature # DKIF THEN InvalidHeader("invalid signature")
    ELSE IF header.length # 32 THEN InvalidHeader("invalid length")
    ELSE IF header.four_cc # VP90 THEN InvalidHeader("invalid four_cc")
    ELSE Ok([reader |-> reader, header |-> header])

\* the checks of Ivf::new on the decoded header, in the order of the code
validate(reader, header) ==
    IF header.signature # DKIF THEN InvalidHeader("invalid signature")
    ELSE IF header.version # 0 THEN InvalidHeader("invalid version")
    ELSE IF header.length # 32 THEN InvalidHeader("invalid length")
    ELSE IF header.four_cc # VP90 THEN InvalidHeader("invalid four_cc")
    ELSE Ok([reader |-> reader, header |-> header])

\* Ivf::new keeping a clone of the reader made before the header was read
new_keeps_start(reader) ==
    { IF ~r.ok THEN TruncatedInput
      ELSE validate(clone(reader), IvfHeader(Overlay(Zeros(HeaderSize), r.bytes))) :
        r \in read_exact(reader, HeaderSize) }

\* Ivf::new with read in place of read_exact: a short read leaves the rest
\* of the zeroed buffer as it is, and the header is validated all the same
new_read(reader) ==
    LET rest == SubSeq(data, reader.pos + 1, Min(Len(data), reader.pos + HeaderSize))
    IN  { validate([pos |-> reader.pos + Len(rest)],
                   IvfHeader(Overlay(Zeros(HeaderSize), rest))) }

\* Ivf::new(reader): the set of results (one, but for the unspecified
\* outcomes of a failed read, which all give the same error)
new(reader) ==
    { IF ~r.ok THEN TruncatedInput
      ELSE validate(r.reader, IvfHeader(Overlay(Zeros(HeaderSize), r.bytes))) :
        r \in read_exact(reader, HeaderSize) }

(***************************************************************************)
(* The accessors and Ivf::iter.                                            *)
(***************************************************************************)
width(self) == self.header.width
height(self) == self.header.height
frame_rate_rate(self) == self.header.frame_rate_rate
frame_rate_scale(self) == self.header.frame_rate_scale
\* frame_count returning the field next to it
frame_count_scale(self) == self.header.frame_rate_scale

frame_count(self) == self.header.frame_count

iter(self) ==
    [reader           |-> clone(self.reader),
     size_buffer      |-> Zeros(4),
     timestamp_buffer |-> Zeros(8),
     frame_count      |-> frame_count(self)]

(***************************************************************************)
(* IvfIter::next and IvfIter::size_hint.                                   *)
(***************************************************************************)
IvfFrame(timestamp, bytes) == [timestamp |-> timestamp, data |-> bytes]

\* the third read one byte short of the size
next_data_short(self) ==
    LET size == from_le_bytes(self.size_buffer)
        timestamp == u64_from_le_bytes(self.timestamp_buffer)
    IN  { [self |-> [self EXCEPT !.reader = r.reader],
           item |-> IF r.ok THEN Some(IvfFrame(timestamp, r.bytes)) ELSE None] :
            r \in read_exact(self.reader, IF size > 0 THEN size - 1 ELSE 0) }

\* the third read taking a size of 0 for the end of the frames
next_data_zero_ends(self) ==
    LET size == from_le_bytes(self.size_buffer)
        timestamp == u64_from_le_bytes(self.timestamp_buffer)
    IN  { [self |-> [self EXCEPT !.reader = r.reader],
           item |-> IF r.ok /\ size # 0 THEN Some(IvfFrame(timestamp, r.bytes))
                    ELSE None] :
            r \in read_exact(self.reader, size) }

\* the third read counting down frame_count, the frames still expected
next_data_counting(self) ==
    LET size == from_le_bytes(self.size_buffer)
        timestamp == u64_from_le_bytes(self.timestamp_buffer)
    IN  { IF r.ok
          THEN [self |-> [self EXCEPT !.reader = r.reader,
                                      !.frame_count = IF @ > 0 THEN @ - 1 ELSE 0],
                item |-> Some(IvfFrame(timestamp, r.bytes))]
          ELSE [self |-> [self EXCEPT !.reader = r.reader], item |-> None] :
            r \in read_exact(self.reader, size) }

\* the third read with read in place of read_exact: a short read gives a
\* frame of the bytes that were left
next_data_partial(self) ==
    LET size == from_le_bytes(self.size_buffer)
        timestamp == u64_from_le_bytes(self.timestamp_buffer)
        upto == Min(Len(data), self.reader.pos + size)
    IN  { [self |-> [self EXCEPT !.reader = [pos |-> upto]],
           item |-> Some(IvfFrame(timestamp, SubSeq(data, self.reader.pos + 1, upto)))] }

\* the third read of next(), after both buffers were filled: a fresh
\* vec![0u8; size], dropped when the read fails
next_data(self) ==
    LET size == from_le_bytes(self.size_buffer)
        timestamp == u64_from_le_bytes(self.timestamp_buffer)
    IN  { [self |-> [self EXCEPT !.reader = r.reader],
           item |-> IF r.ok THEN Some(IvfFrame(timestamp, r.bytes)) ELSE None] :
            r \in read_exact(self.reader, size) }

\* the second read of next()
next_timestamp(self) ==
    UNION { LET after == [self EXCEPT !.reader = r.reader,
                                      !.timestamp_buffer = Overlay(@, r.bytes)]
            IN  IF r.ok THEN next_data(after)
                ELSE {[self |-> after, item |-> None]} :
              r \in read_exact(self.reader, Len(self.timestamp_buffer)) }

\* next() reading through a clone of the reader: its own reader stays
next_on_clone(self) ==
    { [self |-> [o.self EXCEPT !.reader = self.reader], item |-> o.item] :
        o \in UNION { LET after == [self EXCEPT !.reader = r.reader,
                                                !.size_buffer = Overlay(@, r.bytes)]
                      IN  IF r.ok THEN next_timestamp(after)
                          ELSE {[self |-> after, item |-> None]} :
                        r \in read_exact(clone(self.reader), Len(self.size_buffer)) } }

\* IvfIter::next(&mut self): the outcomes [self, item], self the iterator
\* after the call and item the Option<IvfFrame> returned
next(self) ==
    UNION { LET after == [self EXCEPT !.reader = r.reader,
                                      !.size_buffer = Overlay(@, r.bytes)]
            IN  IF r.ok THEN next_timestamp(after)
                ELSE {[self |-> after, item |-> None]} :
              r \in read_exact(self.reader, Len(self.size_buffer)) }

size_hint(self) == <<0, Some(self.frame_count)>>

(***************************************************************************)
(* The sources the model is run on.  A source is laid out as the format is *)
(* written (the vectors of the tests are of this shape): a 32-byte header, *)
(* complete frame records, and possibly an incomplete trailing record.     *)
(***************************************************************************)
\* uN::to_le_bytes, n bytes
to_le_bytes(v, n) == [k \in 1..n |-> (v \div (256 ^ (k - 1))) % 256]

RECURSIVE Concat(_)
Concat(ss) == IF ss = <<>> THEN <<>> ELSE Head(ss) \o Concat(Tail(ss))

Prefix(s, n) == SubSeq(s, 1, Min(n, Len(s)))

\* the 12-byte prefix of a frame record: size, then timestamp
EncodePrefix(size, timestamp) ==
    to_le_bytes(size, 4) \o to_le_bytes(timestamp.lo, 4) \o to_le_bytes(timestamp.hi, 4)

EncodeFrame(f) == EncodePrefix(Len(f.data), f.timestamp) \o f.data

EncodeFrames(fs) == Concat([k \in 1..Len(fs) |-> EncodeFrame(fs[k])])

\* the timestamp of the k-th record: 0 for the first, as in tests::iter_ivf,
\* then values with all eight bytes set (0x0k0k0k0k in both halves)
Timestamp(k) == [lo |-> (k - 1) * 16843009, hi |-> (k - 1) * 16843009 + 1]

\* a payload of n bytes, each byte telling its place
Payload(n) == [k \in 1..n |-> 96 + k]

\* the sequences of at most MaxFrames complete frames
FrameSeqs ==
    UNION { { [k \in 1..n |-> IvfFrame(Timestamp(k), Payload(len[k]))] :
                len \in [1..n -> 0..MaxPayload] } : n \in 0..MaxFrames }

\* incomplete trailing records: [kind, bytes], kind the read that falls short.
\* The last two leave at least twelve payload bytes behind a size they do
\* not fill: bytes that read as a record of their own.
Tails ==
    {[kind |-> "none", bytes |-> <<>>]}
    \cup {[kind |-> "size", bytes |-> Prefix(EncodePrefix(1, Timestamp(3)), n)] :
            n \in 1..3}
    \cup {[kind |-> "timestamp", bytes |-> Prefix(EncodePrefix(1, Timestamp(3)), n)] :
            n \in 4..11}
    \cup {[kind |-> "payload", bytes |-> EncodePrefix(t[1], Timestamp(3)) \o t[2]] :
            t \in {<<1, <<>>>>, <<300, Payload(2)>>,
                   <<13, Zeros(12)>>, <<300, EncodeFrame(IvfFrame(Timestamp(2), Payload(1)))>>}}

\* which of the four checked fields are valid (1) or altered (2, 3)
Choices == [{"signature", "version", "length", "four_cc"} -> 1..3]

AllValid == [k \in {"signature", "version", "length", "four_cc"} |-> 1]

\* the bytes a checked field is given, the first of each the valid ones
Signatures == <<DKIF, <<68, 75, 73, 71>>, <<70, 73, 75, 68>>>>
Versions == <<<<0, 0>>, <<1, 0>>, <<0, 1>>>>
Lengths == <<<<32, 0>>, <<0, 32>>, <<33, 0>>>>
FourCCs == <<VP90, <<86, 80, 56, 48>>, <<48, 57, 80, 86>>>>

\* the values the other fields are drawn from: those of the two headers of
\* the tests, but a rate with all four bytes set (0x01020304)
Widths == {176, 1280}
Heights == {144, 720}
Rates == {30000, 16909060}
Scales == {1000, 1}
Counts == {29, 596457}
Reserveds == {<<0, 0, 0, 0>>, <<1, 2, 3, 4>>}

Fields(w, h, r, s, n) ==
    [width |-> w, height |-> h, frame_rate_rate |-> r, frame_rate_scale |-> s,
     frame_count |-> n]

\* the 32 bytes of a header: the checked fields as chosen by c, the values f
\* little-endian at offsets 12, 14, 16, 20 and 24, then the reserved bytes z
Header(c, f, z) ==
    Signatures[c["signature"]] \o Versions[c["version"]]
    \o Lengths[c["length"]] \o FourCCs[c["four_cc"]]
    \o to_le_bytes(f.width, 2) \o to_le_bytes(f.height, 2)
    \o to_le_bytes(f.frame_rate_rate, 4) \o to_le_bytes(f.frame_rate_scale, 4)
    \o to_le_bytes(f.frame_count, 4) \o z

\* the values of the header of tests::parse_ivf_header, with the given
\* declared frame count
TestFields(count) == Fields(176, 144, 30000, 1000, count)

TestHeader(count) == Header(AllValid, TestFields(count), <<0, 0, 0, 0>>)

\* the declared frame counts: none, the most frames a source holds, and the
\* count of the tests
DeclaredCounts == {0, MaxFrames, 29}

\* how a source was put together: the choice of the checked fields, the
\* values of the others, the complete frames after the header, the kind of
\* the incomplete trailing record
Layout(choice, fields, frames, tail) ==
    [choice |-> choice, fields |-> fields, frames |-> frames, tail |-> tail]

Start ==
    /\ result = None
    /\ ivf = None
    /\ iters = [i \in Handles |-> None]
    /\ out = [i \in Handles |-> <<>>]
    /\ ret = None

\* sources for one frame sequence: a valid header, frames, a tail; and two
\* sources Ivf::new rejects
Init ==
    /\ \/ \E n \in DeclaredCounts, fs \in FrameSeqs, t \in Tails :
            /\ layout = Layout(AllValid, TestFields(n), fs, t.kind)
            /\ data = TestHeader(n) \o EncodeFrames(fs) \o t.bytes
       \/ /\ layout = Layout(AllValid, TestFields(0), <<>>, "none")
          /\ data = Prefix(TestHeader(0), HeaderSize - 1)
       \/ /\ layout = Layout([AllValid EXCEPT !["four_cc"] = 2], TestFields(0), <<>>, "none")
          /\ data = Header(layout.choice, layout.fields, <<0, 0, 0, 0>>)
    /\ held = {1}
    /\ Start

\* the frames of the sources for several sequences: n frames, the k-th with
\* a payload of k - 1 bytes (at most MaxPayload)
Ramp(n) == [k \in 1..n |-> IvfFrame(Timestamp(k), Payload(Min(k - 1, MaxPayload)))]

\* the tails of the sources for several sequences: one cut in the size, one
\* in the timestamp, and those cut in the payload
SharedTails == {t \in Tails : Len(t.bytes) \in {0, 2, 8} \/ t.kind = "payload"}

\* sources for several frame sequences over one container
InitShared ==
    /\ \E n \in 0..MaxFrames, t \in SharedTails :
         /\ layout = Layout(AllValid, TestFields(MaxFrames), Ramp(n), t.kind)
         /\ data = TestHeader(MaxFrames) \o EncodeFrames(Ramp(n)) \o t.bytes
    /\ held = Handles
    /\ Start

\* the byte strings of at most n bytes over the bytes 0 and 1
Bytes(n) == UNION { [1..k -> {0, 1}] : k \in 0..n }

\* sources of any bytes after a valid header: those of Init with a valid
\* header, and every string of at most MaxBody bytes 0 and 1
InitBytes ==
    /\ \/ \E n \in DeclaredCounts, fs \in FrameSeqs, t \in Tails :
            /\ layout = Layout(AllValid, TestFields(n), fs, t.kind)
            /\ data = TestHeader(n) \o EncodeFrames(fs) \o t.bytes
       \/ \E body \in Bytes(MaxBody) :
            /\ layout = Layout(AllValid, TestFields(0), <<>>, "bytes")
            /\ data = TestHeader(0) \o body
    /\ held = {1}
    /\ Start

\* sources for Ivf::new: every combination of valid and altered checked
\* fields, the other fields drawn freely; the header alone, cut anywhere, or
\* followed by a frame
InitOpen ==
    /\ \E c \in Choices, w \in Widths, h \in Heights, r \in Rates, s \in Scales,
          n \in Counts, z \in Reserveds :
         LET f == Fields(w, h, r, s, n)
             one == <<IvfFrame(Timestamp(2), Payload(1))>>
         IN  \/ /\ layout = Layout(c, f, <<>>, "none")
                /\ data = Header(c, f, z)
             \/ /\ h = 144 /\ s = 1000 /\ n = 29
                /\ layout = Layout(c, f, <<>>, "none")
                /\ \E len \in 0..(HeaderSize - 1) : data = Prefix(Header(c, f, z), len)
             \/ /\ c = AllValid
                /\ layout = Layout(c, f, one, "none")
                /\ data = Header(c, f, z) \o EncodeFrames(one)
    /\ held = {}
    /\ Start

(***************************************************************************)
(* The operations.                                                         *)
(***************************************************************************)
\* Ivf::new(reader), the reader at the start of the source
New ==
    /\ result = None
    /\ \E r \in new([pos |-> 0]) :
         /\ result' = Some([tag |-> r.tag, kind |-> r.kind, reason |-> r.reason])
         /\ ivf' = r.val
    /\ UNCHANGED <<data, layout, held, iters, out, ret>>

Returned(op, val) == Some([op |-> op, val |-> val])

Width ==
    /\ ivf # None
    /\ ret' = Returned("width", width(Unwrap(ivf)))
    /\ UNCHANGED <<data, layout, held, result, ivf, iters, out>>

Height ==
    /\ ivf # None
    /\ ret' = Returned("height", height(Unwrap(ivf)))
    /\ UNCHANGED <<data, layout, held, result, ivf, iters, out>>

FrameRateRate ==
    /\ ivf # None
    /\ ret' = Returned("frame_rate_rate", frame_rate_rate(Unwrap(ivf)))
    /\ UNCHANGED <<data, layout, held, result, ivf, iters, out>>

FrameRateScale ==
    /\ ivf # None
    /\ ret' = Returned("frame_rate_scale", frame_rate_scale(Unwrap(ivf)))
    /\ UNCHANGED <<data, layout, held, result, ivf, iters, out>>

FrameCount ==
    /\ ivf # None
    /\ ret' = Returned("frame_count", frame_count(Unwrap(ivf)))
    /\ UNCHANGED <<data, layout, held, result, ivf, iters, out>>

\* ivf.iter(), the caller keeping the iterator as its i-th
Iter(i) ==
    /\ ivf # None
    /\ i \in held
    /\ iters' = [iters EXCEPT ![i] = Some(iter(Unwrap(ivf)))]
    /\ out' = [out EXCEPT ![i] = <<>>]
    /\ UNCHANGED <<data, layout, held, result, ivf, ret>>

\* a next() call on the i-th iterator
NextFrame(i) ==
    /\ iters[i] # None
    /\ Len(out[i]) < MaxDemands
    /\ \E o \in next(Unwrap(iters[i])) :
         /\ iters' = [iters EXCEPT ![i] = Some(o.self)]
         /\ out' = [out EXCEPT ![i] = Append(@, o.item)]
    /\ UNCHANGED <<data, layout, held, result, ivf, ret>>

\* a size_hint() call on the i-th iterator
SizeHint(i) ==
    /\ iters[i] # None
    /\ ret' = Returned("size_hint", size_hint(Unwrap(iters[i])))
    /\ UNCHANGED <<data, layout, held, result, ivf, iters, out>>

Accessor == Width \/ Height \/ FrameRateRate \/ FrameRateScale \/ FrameCount

Next ==
    \/ New
    \/ Accessor
    \/ \E i \in Handles : Iter(i)
    \/ \E i \in Handles : NextFrame(i)
    \/ \E i \in Handles : SizeHint(i)

Spec == Init /\ [][Next]_vars

NextOpen == New \/ Accessor

SpecOpen == InitOpen /\ [][NextOpen]_vars

SpecShared == InitShared /\ [][Next]_vars

\* Ivf::new, iter() and next() alone
NextBytes ==
    \/ New
    \/ \E i \in Handles : Iter(i)
    \/ \E i \in Handles : NextFrame(i)

SpecBytes == InitBytes /\ [][NextBytes]_vars

(***************************************************************************)
(* Ivf::new and the accessors (checked under SpecOpen).                    *)
(***************************************************************************)
Opened == result # None /\ Unwrap(result).tag = "Ok"

\* the last accessor or size_hint call was op and returned val
Got(op, val) == ret # None /\ Unwrap(ret).op = op /\ Unwrap(ret).val = val

\* the header of tests::parse_ivf_header, byte by byte
ExampleHeader ==
    <<68, 75, 73, 70, 0, 0, 32, 0, 86, 80, 57, 48, 176, 0, 144, 0,
      48, 117, 0, 0, 232, 3, 0, 0, 29, 0, 0, 0, 0, 0, 0, 0>>

\* C1: on a source of at least 32 bytes whose signature, version, header
\* length and codec are the expected ones, Ivf::new returns Ok whatever the
\* other fields hold, and width, height, frame_rate_rate, frame_rate_scale
\* and frame_count give (and, when called, return) the values that were
\* written little-endian at offsets 12, 14, 16, 20 and 24.
C1_ValidHeaderOpens ==
    (layout.choice = AllValid /\ Len(data) >= HeaderSize /\ result # None) =>
        /\ Opened
        /\ ivf # None
        /\ width(Unwrap(ivf)) = layout.fields.width
        /\ height(Unwrap(ivf)) = layout.fields.height
        /\ frame_rate_rate(Unwrap(ivf)) = layout.fields.frame_rate_rate
        /\ frame_rate_scale(Unwrap(ivf)) = layout.fields.frame_rate_scale
        /\ frame_count(Unwrap(ivf)) = layout.fields.frame_count
        /\ (ret # None /\ Unwrap(ret).op \in DOMAIN layout.fields) =>
              Unwrap(ret).val = layout.fields[Unwrap(ret).op]

\* the example header was opened: 176 x 144, 30000 / 1000, and frame_count
\* has just returned 29
C1_Witness ==
    /\ Prefix(data, HeaderSize) = ExampleHeader
    /\ Opened
    /\ ivf # None
    /\ width(Unwrap(ivf)) = 176
    /\ height(Unwrap(ivf)) = 144
    /\ frame_rate_rate(Unwrap(ivf)) = 30000
    /\ frame_rate_scale(Unwrap(ivf)) = 1000
    /\ Got("frame_count", 29)

\* the reason of the first altered field, in the order signature, version,
\* header length, codec identifier
FirstAltered(c) ==
    IF c["signature"] # 1 THEN "invalid signature"
    ELSE IF c["version"] # 1 THEN "invalid version"
    ELSE IF c["length"] # 1 THEN "invalid length"
    ELSE "invalid four_cc"

\* C2: on a 32-byte header with at least one of signature, version, header
\* length and codec identifier altered, Ivf::new returns InvalidHeader and no
\* Ivf, with the reason of the first altered field in that order.
C2_InvalidHeaderReason ==
    (layout.choice # AllValid /\ Len(data) >= HeaderSize /\ result # None) =>
        /\ Unwrap(result) = [tag |-> "Err", kind |-> "InvalidHeader",
                             reason |-> FirstAltered(layout.choice)]
        /\ ivf = None

\* a header with the version and the codec identifier altered was refused
\* for its version
C2_Witness ==
    /\ Len(data) = HeaderSize
    /\ layout.choice["signature"] = 1
    /\ layout.choice["version"] # 1
    /\ layout.choice["four_cc"] # 1
    /\ result # None
    /\ Unwrap(result).reason = "invalid version"

\* C3: on a source of fewer than 32 bytes Ivf::new returns the error of the
\* short read, whatever the bytes: never Ok, never InvalidHeader.
C3_ShortInputTruncated ==
    (Len(data) < HeaderSize /\ result # None) =>
        /\ Unwrap(result) = [tag |-> "Err", kind |-> "TruncatedInput", reason |-> ""]
        /\ ivf = None

\* a source cut after its (altered) signature and before the end of the
\* header was refused as truncated
C3_Witness ==
    /\ Len(data) < HeaderSize
    /\ Len(data) > 4
    /\ layout.choice["signature"] # 1
    /\ result # None
    /\ Unwrap(result).kind = "TruncatedInput"

(***************************************************************************)
(* The frame sequence (checked under Spec and SpecShared).                 *)
(***************************************************************************)
\* the number of next() calls of the i-th iterator up to and including the
\* first that returned None (all of them when none did)
UpToEnd(i) ==
    IF \E j \in 1..Len(out[i]) : out[i][j] = None
    THEN CHOOSE j \in 1..Len(out[i]) :
            /\ out[i][j] = None
            /\ \A k \in 1..(j - 1) : out[i][k] # None
    ELSE Len(out[i])

\* the i-th iterator has returned None
Ended(i) == \E j \in 1..Len(out[i]) : out[i][j] = None

\* the frames the i-th iterator returned before its first None
Emitted(i) == [j \in 1..(UpToEnd(i) - (IF Ended(i) THEN 1 ELSE 0)) |-> Unwrap(out[i][j])]

\* the j-th call gave the j-th complete frame of the source, and the call
\* after the last complete frame gave None
AsStored(i) ==
    \A j \in 1..Len(out[i]) :
        /\ j <= Len(layout.frames) => out[i][j] = Some(layout.frames[j])
        /\ j = Len(layout.frames) + 1 => out[i][j] = None

\* C4: on a valid header followed by exactly K complete frame records and
\* nothing else, the calls of next() return the K frames in file order, each
\* with the timestamp and payload that were encoded, and call K + 1 returns
\* None, whatever frame count the header declares.
C4_CompleteFramesInOrder ==
    layout.tail = "none" => \A i \in Handles : AsStored(i)

\* a source declaring no frame gave its MaxFrames frames, then None
C4_Witness ==
    /\ layout.tail = "none"
    /\ Len(layout.frames) = MaxFrames
    /\ layout.fields.frame_count < Len(layout.frames)
    /\ Len(out[1]) = MaxFrames + 1
    /\ Emitted(1) = layout.frames
    /\ out[1][MaxFrames + 1] = None

\* an iterator of the container before its first call: at the first frame
FirstFrame(count) ==
    [reader |-> [pos |-> HeaderSize], size_buffer |-> Zeros(4),
     timestamp_buffer |-> Zeros(8), frame_count |-> count]

RECURSIVE Alone(_, _)
\* what n calls of next() return on an iterator nobody else touches, up to
\* and including the first None (until then next() has one outcome: a failed
\* read has several, all of which return None)
Alone(self, n) ==
    IF n = 0 THEN <<>>
    ELSE LET o == CHOOSE o \in next(self) : TRUE
         IN  IF o.item = None THEN <<None>>
             ELSE <<o.item>> \o Alone(o.self, n - 1)

\* C5 (state part): every iterator of the container starts at the first
\* frame and, however the calls on the iterators are interleaved, has
\* returned up to its first None what it returns when traversed alone.
C5_EachAsAlone ==
    \A i \in Handles :
        /\ (iters[i] # None /\ out[i] = <<>>) =>
              Unwrap(iters[i]).reader.pos = HeaderSize
        /\ SubSeq(out[i], 1, UpToEnd(i)) =
              Alone(FirstFrame(layout.fields.frame_count), UpToEnd(i))

\* C5 (step part): a step that changes one iterator or what it has returned
\* leaves every other iterator, position included, as it was.
C5_OthersUntouched ==
    \A i \in Handles :
        (iters'[i] # iters[i] \/ out'[i] # out[i]) =>
            \A j \in Handles \ {i} : iters'[j] = iters[j] /\ out'[j] = out[j]

\* C5: several iterators of one container each start at the first frame,
\* each return the items a lone traversal returns, in the same order, and a
\* call on one leaves the others where they were.
C5_IndependentSequences == []C5_EachAsAlone /\ [][C5_OthersUntouched]_vars

\* one iterator is through its MaxFrames frames and the other, created
\* meanwhile, has returned the first frame only
C5_Witness ==
    /\ Len(layout.frames) = MaxFrames
    /\ Ended(1)
    /\ Emitted(1) = layout.frames
    /\ Len(out[2]) = 1
    /\ out[2][1] = Some(layout.frames[1])
    /\ Unwrap(iters[2]).reader.pos < Unwrap(iters[1]).reader.pos

\* C6: on a valid header followed by J complete frame records and an
\* incomplete trailing one (cut in the size, in the timestamp, or with fewer
\* payload bytes than its size), the calls of next() return the J frames as
\* encoded and call J + 1 returns None: up to the end of the sequence, what
\* the source gives when cut after the J-th record.
C6_IncompleteTailOmitted ==
    layout.tail # "none" => \A i \in Handles : AsStored(i)

\* a source with MaxFrames frames and a record with fewer payload bytes than
\* its size gave the frames, then None
C6_Witness ==
    /\ layout.tail = "payload"
    /\ Len(layout.frames) = MaxFrames
    /\ Len(data) > HeaderSize + Len(EncodeFrames(layout.frames)) + 12
    /\ Ended(1)
    /\ Emitted(1) = layout.frames

C8_ExhaustedIsTerminal ==
    \A i \in Handles :
        \A j \in 1..Len(out[i]) :
            out[i][j] = None => \A k \in j..Len(out[i]) : out[i][k] = None

\* C9 (state part): the reader the Ivf keeps is 32 bytes past the start of
\* the source, and the header it keeps is the one decoded from the first 32
\* bytes, with the values that were encoded.
C9_HandleAfterHeader ==
    ivf # None =>
        /\ Unwrap(ivf).reader.pos = HeaderSize
        /\ Unwrap(ivf).header = IvfHeader(Prefix(data, HeaderSize))
        /\ width(Unwrap(ivf)) = layout.fields.width
        /\ height(Unwrap(ivf)) = layout.fields.height
        /\ frame_rate_rate(Unwrap(ivf)) = layout.fields.frame_rate_rate
        /\ frame_rate_scale(Unwrap(ivf)) = layout.fields.frame_rate_scale
        /\ frame_count(Unwrap(ivf)) = layout.fields.frame_count

\* C9 (step part): no accessor, iter(), next() or size_hint() call changes
\* the Ivf.
C9_IvfUnchanged == ivf # None => ivf' = ivf

\* C9: after Ivf::new the kept reader is 32 bytes past where parsing began,
\* and it and the stored header stay as they are under every sequence of
\* accessor calls, iter() calls and next() calls; only the iterators' own
\* readers advance.
C9_RetainedHandleFixed == []C9_HandleAfterHeader /\ [][C9_IvfUnchanged]_vars

\* both iterators have advanced, one to its end, an accessor was called, and
\* the Ivf's reader is still 32 bytes in
C9_Witness ==
    /\ ivf # None
    /\ Unwrap(ivf).reader.pos = HeaderSize
    /\ Ended(1)
    /\ Unwrap(iters[1]).reader.pos > HeaderSize
    /\ iters[2] # None
    /\ Unwrap(iters[2]).reader.pos > HeaderSize
    /\ Unwrap(iters[2]).reader.pos # Unwrap(iters[1]).reader.pos
    /\ Got("width", 176)

\* C10: size_hint() of an iterator is (0, Some(the frame count the header
\* declares)) from iter() on, before, between and after the frames and after
\* the end, and whenever it is called it returns that pair; the frames
\* returned are the complete records of the source whatever the pair says.
C10_SizeHintFixed ==
    /\ \A i \in Handles :
          iters[i] # None =>
              /\ size_hint(Unwrap(iters[i])) = <<0, Some(layout.fields.frame_count)>>
              /\ Ended(i) => Len(Emitted(i)) = Len(layout.frames)
    /\ (ret # None /\ Unwrap(ret).op = "size_hint") =>
          Unwrap(ret).val = <<0, Some(layout.fields.frame_count)>>

\* size_hint() returned (0, Some(0)) after the iterator had returned its
\* MaxFrames frames and None
C10_Witness ==
    /\ Ended(1)
    /\ Len(Emitted(1)) = MaxFrames
    /\ layout.fields.frame_count = 0
    /\ Got("size_hint", <<0, Some(0)>>)

\* the offset in the source of the j-th complete frame record
RecordAt(j) == HeaderSize + Len(EncodeFrames(SubSeq(layout.frames, 1, j - 1)))

\* C11: a record of size 0 with its 12-byte prefix present is returned as a
\* frame with its timestamp and an empty payload, the reader is then 12
\* bytes further, and the next call reads the record that follows (None when
\* nothing follows); this also when the record is the last 12 bytes.
C11_ZeroSizeEmitted ==
    \A i \in Handles :
        \A j \in 1..Len(out[i]) :
            (j <= Len(layout.frames) /\ layout.frames[j].data = <<>>) =>
                /\ out[i][j] = Some(IvfFrame(layout.frames[j].timestamp, <<>>))
                /\ (j = Len(out[i])) =>
                      Unwrap(iters[i]).reader.pos = RecordAt(j) + 12
                /\ (j < Len(out[i]) /\ j < Len(layout.frames)) =>
                      out[i][j + 1] = Some(layout.frames[j + 1])
                /\ (j < Len(out[i]) /\ j = Len(layout.frames) /\ layout.tail = "none") =>
                      out[i][j + 1] = None

\* a record of size 0 was followed by a record with a payload, and another
\* source ended in a record of size 0: here the source is MaxFrames records,
\* the first and the last of size 0, the last its last 12 bytes, and all were
\* returned before None
C11_Witness ==
    /\ layout.tail = "none"
    /\ Len(layout.frames) = MaxFrames
    /\ layout.frames[1].data = <<>>
    /\ layout.frames[MaxFrames].data = <<>>
    /\ SubSeq(data, Len(data) - 11, Len(data)) = EncodePrefix(0, Timestamp(MaxFrames))
    /\ Len(out[1]) = MaxFrames + 1
    /\ out[1][1] = Some(IvfFrame(Timestamp(1), <<>>))
    /\ out[1][MaxFrames] = Some(IvfFrame(Timestamp(MaxFrames), <<>>))
    /\ out[1][MaxFrames + 1] = None

(***************************************************************************)
(* The frame sequence on any bytes (checked under SpecBytes).              *)
(***************************************************************************)
\* the 32-bit little-endian number in the four bytes of the source after
\* offset p
U32At(p) ==
    data[p + 1] + 256 * data[p + 2] + 65536 * data[p + 3] + 16777216 * data[p + 4]

\* the i-th iterator takes a next() step: one more item in out[i]
Demand(i) == iters[i] # None /\ Len(out'[i]) = Len(out[i]) + 1

\* C12 (step part): a next() call that returns a frame started with at least
\* 12 + size bytes left, size the number at the reader's offset p; the
\* timestamp is the 8 bytes after offset p + 4, the payload the size bytes
\* after offset p + 12, and the reader ends at p + 12 + size.
C12_FrameAtCursor ==
    \A i \in Handles :
        Demand(i) =>
            LET p == Unwrap(iters[i]).reader.pos
                q == Unwrap(iters'[i]).reader.pos
                item == out'[i][Len(out'[i])]
            IN  item # None =>
                    /\ p + 12 <= Len(data)
                    /\ p + 12 + U32At(p) <= Len(data)
                    /\ Len(Unwrap(item).data) = U32At(p)
                    /\ Unwrap(item).data = SubSeq(data, p + 13, p + 12 + U32At(p))
                    /\ Unwrap(item).timestamp = [lo |-> U32At(p + 4), hi |-> U32At(p + 8)]
                    /\ q = p + 12 + U32At(p)

\* C12 (state part): no reader is past the end of the source.
C12_CursorInSource ==
    /\ ivf # None => Unwrap(ivf).reader.pos <= Len(data)
    /\ \A i \in Handles :
          iters[i] # None => Unwrap(iters[i]).reader.pos \in HeaderSize..Len(data)

\* C12: whatever bytes follow a valid header, every frame next() returns has
\* a payload as long as the 32-bit little-endian size read for it, its
\* timestamp and payload are the bytes at the reader's offset at the start
\* of the call, the reader advances by 12 + size, no partial payload is
\* returned and no reader passes the end of the source.
C12_FramesAreTheBytes == []C12_CursorInSource /\ [][C12_FrameAtCursor]_vars

\* bytes that are no well-formed stream gave a frame with a payload of one
\* byte, and the reader is 13 bytes past the header with bytes left
C12_Witness ==
    /\ layout.tail = "bytes"
    /\ Len(out[1]) = 1
    /\ out[1][1] # None
    /\ Len(Unwrap(out[1][1]).data) = 1
    /\ Unwrap(iters[1]).reader.pos = HeaderSize + 13
    /\ Len(data) > HeaderSize + 13

\* the frames among what the i-th iterator has returned
Frames(i) == {j \in 1..Len(out[i]) : out[i][j] # None}

\* C13: on a source of L >= 32 bytes every frame returned has taken at least
\* 12 bytes of the source, so an iterator returns at most (L - 32) div 12
\* frames, before its first None and in all, and call (L - 32) div 12 + 1 at
\* the latest has returned None, whatever the header declares and the sizes
\* say.
C13_FramesBounded ==
    \A i \in Handles :
        iters[i] # None =>
            /\ 12 * Cardinality(Frames(i)) <= Unwrap(iters[i]).reader.pos - HeaderSize
            /\ Len(Emitted(i)) <= (Len(data) - HeaderSize) \div 12
            /\ Cardinality(Frames(i)) <= (Len(data) - HeaderSize) \div 12
            /\ Len(out[i]) > (Len(data) - HeaderSize) \div 12 => Ended(i)

\* a source of 12 to 23 bytes after the header gave its one frame and then,
\* at the second call, None
C13_Witness ==
    /\ (Len(data) - HeaderSize) \div 12 = 1
    /\ Len(out[1]) = 2
    /\ out[1][1] # None
    /\ out[1][2] = None

====
